---- MODULE Spec2Model ----
(***************************************************************************)
(* Crawl & audit engine of src/app.py: clean_url, same_domain, grade,      *)
(* analyse_page and crawl.                                                  *)
(*                                                                          *)
(* Strings are sequences of one-character strings, so that urlparse,       *)
(* clean_url and urljoin are computed on the characters of a URL.          *)
(* An HTML document is modelled by what BeautifulSoup extracts from it     *)
(* (lengths, counts, the list of anchor hrefs); a title or a meta          *)
(* description is represented by its length (it is empty iff its length is *)
(* 0, which is all that the scoring reads).                                 *)
(***************************************************************************)
EXTENDS Integers, Sequences, FiniteSets, TLC

\* ------------------------------------------------------------------ bounds
\* largest page budget handed to crawl
MaxPages == 4
\* largest number of anchors on a document of the page-analysis inputs
MaxAnchors == 2
\* largest number of images without alt text on a document
MaxMissingAlt == 6
\* longest URL handed to clean_url on its own
MaxUrlLen == 6

\* --------------------------------------------------------------- constants
TITLE_MIN == 30
TITLE_MAX == 60
META_MIN == 120
META_MAX == 160
WORD_COUNT_MIN == 300
SCORE_TITLE == 20
SCORE_META == 15
SCORE_H1 == 15
SCORE_IMAGES == 15
SCORE_WORDS == 10
SCORE_CANON == 10
SCORE_SCHEMA == 5

\* an optional value: None is the empty tuple, a present value x is <<x>>
None == <<>>
Some(x) == <<x>>

\* ----------------------------------------------------------------- strings
Min(a, b) == IF a < b THEN a ELSE b
Max(a, b) == IF a > b THEN a ELSE b

\* s.find(c) + 1: the first position of character c in s, 0 when absent
Find(s, c) ==
  IF \E k \in 1..Len(s) : s[k] = c
  THEN CHOOSE k \in 1..Len(s) : s[k] = c /\ \A j \in 1..(k-1) : s[j] # c
  ELSE 0

\* s[k-1:] of Python, for a 1-based k
From(s, k) == SubSeq(s, k, Len(s))

\* s.startswith(p)
StartsWith(s, p) == Len(s) >= Len(p) /\ SubSeq(s, 1, Len(p)) = p

\* s.rstrip("/")
RECURSIVE RStripSlash(_)
RStripSlash(s) ==
  IF s # <<>> /\ s[Len(s)] = "/" THEN RStripSlash(SubSeq(s, 1, Len(s) - 1)) ELSE s

\* str.lower() on the letters of the model's alphabet
LowerChar(c) ==
  CASE c = "A" -> "a" [] c = "H" -> "h" [] c = "P" -> "p" [] c = "T" -> "t" [] OTHER -> c
Lower(s) == [k \in 1..Len(s) |-> LowerChar(s[k])]

Letters == {"a", "b", "e", "h", "i", "l", "m", "o", "p", "q", "r", "t", "x",
            "A", "H", "P", "T"}
\* urllib.parse.scheme_chars, restricted to the alphabet
SchemeChars == Letters

\* ------------------------------------------------ urllib.parse (as called)
\* urlparse(url): scheme, netloc, path, query, fragment; err when urlsplit
\* raises ValueError("Invalid IPv6 URL").  The alphabet has no ";", so the
\* params component is always empty and is left out.  The steps of urlsplit
\* follow one another, each handing the rest of the URL to the next.

\* the query is split off at the first "?" (q its position, 0 when absent)
SplitQuery(scheme, netloc, r3, fragment, err, q) ==
  [scheme |-> scheme, netloc |-> netloc,
   path |-> IF q > 0 THEN SubSeq(r3, 1, q - 1) ELSE r3,
   query |-> IF q > 0 THEN From(r3, q + 1) ELSE <<>>,
   fragment |-> fragment, err |-> err]

\* the fragment is split off at the first "#" (f its position)
SplitFragmentAt(scheme, netloc, r3, fragment, err) ==
  SplitQuery(scheme, netloc, r3, fragment, err, Find(r3, "?"))

SplitFragment(scheme, netloc, r2, err, f) ==
  IF f > 0
    THEN SplitFragmentAt(scheme, netloc, SubSeq(r2, 1, f - 1), From(r2, f + 1), err)
    ELSE SplitFragmentAt(scheme, netloc, r2, <<>>, err)

\* a netloc with "[" and no "]", or the converse, is an invalid IPv6 URL
SplitAfterNetloc(scheme, netloc, r2) ==
  SplitFragment(scheme, netloc, r2,
                (Find(netloc, "[") > 0) # (Find(netloc, "]") > 0),
                Find(r2, "#"))

\* _splitnetloc: the netloc ends before the first of "/", "?", "#"
NetlocEnd(r1, ends) ==
  IF ends = {} THEN Len(r1) + 1 ELSE CHOOSE k \in ends : \A j \in ends : k <= j

SplitNetlocAt(scheme, r1, delim) ==
  SplitAfterNetloc(scheme, SubSeq(r1, 3, delim - 1), From(r1, delim))

SplitNetloc(scheme, r1) ==
  IF StartsWith(r1, <<"/", "/">>)
    THEN SplitNetlocAt(scheme, r1,
           NetlocEnd(r1, {k \in 3..Len(r1) : r1[k] \in {"/", "?", "#"}}))
    ELSE SplitAfterNetloc(scheme, <<>>, r1)

\* the scheme ends at the first ":" (i its position) when it is not the
\* first character and only scheme characters precede it
SplitScheme(url, i) ==
  IF /\ i > 1
     /\ url[1] \in Letters
     /\ \A k \in 1..(i-1) : url[k] \in SchemeChars
    THEN SplitNetloc(Lower(SubSeq(url, 1, i - 1)), From(url, i + 1))
    ELSE SplitNetloc(<<>>, url)

urlparse(url) == SplitScheme(url, Find(url, ":"))

\* urlunparse((scheme, netloc, path, "", query, fragment))
UnparseFragment(u, fragment) ==
  IF fragment # <<>> THEN u \o <<"#">> \o fragment ELSE u

UnparseQuery(u, query, fragment) ==
  UnparseFragment(IF query # <<>> THEN u \o <<"?">> \o query ELSE u, fragment)

UnparseScheme(scheme, u, query, fragment) ==
  UnparseQuery(IF scheme # <<>> THEN scheme \o <<":">> \o u ELSE u, query, fragment)

urlunparse(scheme, netloc, path, query, fragment) ==
  UnparseScheme(scheme,
    IF netloc # <<>>
      THEN <<"/", "/">> \o netloc
           \o (IF path # <<>> /\ path[1] # "/" THEN <<"/">> \o path ELSE path)
      ELSE path,
    query, fragment)

\* urllib.parse.uses_relative / uses_netloc, restricted to the alphabet
UsesRelative == {<<>>, <<"h", "t", "t", "p">>}

\* the position of the last "/" of s, 0 when there is none
LastSlash(s) ==
  IF \E k \in 1..Len(s) : s[k] = "/"
  THEN CHOOSE k \in 1..Len(s) : s[k] = "/" /\ \A j \in (k+1)..Len(s) : s[j] # "/"
  ELSE 0

\* a relative path is resolved against the directory of the base path
JoinRelativePath(dir, path) == (IF dir = <<>> THEN <<"/">> ELSE dir) \o path

\* urljoin after the two urlparse calls, scheme being url's scheme or, when
\* it has none, the base's
JoinParsed(url, b, u, scheme) ==
  IF scheme # b.scheme \/ scheme \notin UsesRelative THEN url
  ELSE IF u.netloc # <<>>
    THEN urlunparse(scheme, u.netloc, u.path, u.query, u.fragment)
  ELSE IF u.path = <<>>
    THEN urlunparse(scheme, b.netloc, b.path,
                    IF u.query = <<>> THEN b.query ELSE u.query, u.fragment)
  ELSE IF u.path[1] = "/"
    THEN urlunparse(scheme, b.netloc, u.path, u.query, u.fragment)
  ELSE urlunparse(scheme, b.netloc,
                  JoinRelativePath(SubSeq(b.path, 1, LastSlash(b.path)), u.path),
                  u.query, u.fragment)

JoinResult(base, url, b, u) ==
  [err |-> (url # <<>> /\ (b.err \/ u.err)),
   url |-> IF url = <<>> THEN base
           ELSE JoinParsed(url, b, u, IF u.scheme = <<>> THEN b.scheme ELSE u.scheme)]

\* urljoin(base, url) for hrefs without "." or ".." or empty path segments;
\* err when a urlparse it makes raises
urljoin(base, url) == JoinResult(base, url, urlparse(base), urlparse(url))

\* ----------------------------------------------------------------- helpers
\* the canonical form with the query string kept
CleanParsedKeepQuery(p) ==
  p.scheme \o <<":", "/", "/">> \o p.netloc \o RStripSlash(p.path)
  \o (IF p.query # <<>> THEN <<"?">> \o p.query ELSE <<>>)

CleanParsed(p) == p.scheme \o <<":", "/", "/">> \o p.netloc \o RStripSlash(p.path)

clean_url(url) == CleanParsed(urlparse(url))

\* urlparse(url).scheme read in place of the netloc
scheme_of(url) == urlparse(url).scheme

\* urlparse(url).netloc, as read by same_domain and by the link loop
netloc_of(url) == urlparse(url).netloc

same_domain(url, base) == netloc_of(url) = netloc_of(base)

\* the breakpoints compared with > in place of >=
gradeStrict(score) ==
  IF score > 90 THEN "A"
  ELSE IF score > 75 THEN "B"
  ELSE IF score > 60 THEN "C"
  ELSE IF score > 45 THEN "D"
  ELSE "F"

grade(score) ==
  IF score >= 90 THEN "A"
  ELSE IF score >= 75 THEN "B"
  ELSE IF score >= 60 THEN "C"
  ELSE IF score >= 45 THEN "D"
  ELSE "F"

\* ----------------------------------------------------------- page analyser
\* the result dict with the score starting at 100
DefaultResultFullScore(url) ==
  [url |-> url, status_code |-> None, load_time_ms |-> None,
   title_len |-> 0, meta_desc_len |-> 0, h1_count |-> 0,
   canonical |-> "", schema_types |-> <<>>,
   images_total |-> 0, images_missing_alt |-> 0,
   internal_links |-> 0, external_links |-> 0,
   word_count |-> 0, issues |-> <<>>, warnings |-> <<>>,
   score |-> 100, outbound_urls |-> {}, error |-> None]

\* the result dict as analyse_page creates it
DefaultResult(url) ==
  [url |-> url, status_code |-> None, load_time_ms |-> None,
   title_len |-> 0, meta_desc_len |-> 0, h1_count |-> 0,
   canonical |-> "", schema_types |-> <<>>,
   images_total |-> 0, images_missing_alt |-> 0,
   internal_links |-> 0, external_links |-> 0,
   word_count |-> 0, issues |-> <<>>, warnings |-> <<>>,
   score |-> 0, outbound_urls |-> {}, error |-> None]

\* the timeout handler without its issue
TimeoutResultNoIssue(result) == [result EXCEPT !.error = Some("Timeout")]

\* except requests.exceptions.Timeout
TimeoutResult(result) ==
  [result EXCEPT !.error = Some("Timeout"),
                 !.issues = Append(@, <<"Request timed out">>)]

\* the exception handler without result["error"]
ErrorResultNoError(result, e) ==
  [result EXCEPT !.issues = Append(@, <<"Error", e>>)]

\* except Exception as e
ErrorResult(result, e) ==
  [result EXCEPT !.error = Some(e), !.issues = Append(@, <<"Error", e>>)]

\* the early return for a status other than 200
HttpErrorResult(result) ==
  [result EXCEPT !.issues = Append(@, <<"HTTP", result.status_code[1]>>)]

\* href.startswith(("#", "mailto:", "tel:"))
SkippedHref(href) ==
  \/ StartsWith(href, <<"#">>)
  \/ StartsWith(href, <<"m", "a", "i", "l", "t", "o", ":">>)
  \/ StartsWith(href, <<"t", "e", "l", ":">>)

\* the body of the loop once abs_url = urljoin(url, href) is known
LinkJoined(url, acc, j) ==
  IF j.err \/ urlparse(j.url).err THEN [acc EXCEPT !.raised = TRUE]
  ELSE IF netloc_of(j.url) = netloc_of(url)
    THEN [acc EXCEPT !.internal = @ + 1,
                     !.outbound = Append(@, clean_url(j.url))]
  ELSE [acc EXCEPT !.external = @ + 1]

\* one iteration of the loop over the anchors; acc.raised once urljoin,
\* urlparse or clean_url has raised
LinkStep(url, acc, href) ==
  IF acc.raised \/ SkippedHref(href) THEN acc
  ELSE LinkJoined(url, acc, urljoin(url, href))

RECURSIVE LinkLoop(_, _, _)
LinkLoop(url, acc, anchors) ==
  IF anchors = <<>> THEN acc
  ELSE LinkLoop(url, LinkStep(url, acc, Head(anchors)), Tail(anchors))

\* set(outbound)
SetOf(seq) == {seq[k] : k \in 1..Len(seq)}

\* the extraction from the parsed document, up to the images
Extract(result, doc) ==
  [result EXCEPT !.title_len = doc.title_len,
                 !.meta_desc_len = doc.meta_desc_len,
                 !.h1_count = doc.h1_count,
                 !.canonical = doc.canonical,
                 !.schema_types = doc.schema_types,
                 !.images_total = doc.images_missing_alt + doc.images_with_alt,
                 !.images_missing_alt = doc.images_missing_alt]

\* the scoring rules, each taking and returning the result with the running
\* score in its score field
\* the title rules with the length test made on an empty title as well
ScoreTitleNoElif(r) ==
  IF r.title_len = 0
    THEN [r EXCEPT !.issues = Append(@, <<"Missing title tag">>),
                   !.warnings = Append(@, <<"Title too short", r.title_len>>),
                   !.score = @ - SCORE_TITLE - (SCORE_TITLE \div 2)]
  ELSE IF r.title_len < TITLE_MIN
    THEN [r EXCEPT !.warnings = Append(@, <<"Title too short", r.title_len>>),
                   !.score = @ - (SCORE_TITLE \div 2)]
  ELSE IF r.title_len > TITLE_MAX
    THEN [r EXCEPT !.warnings = Append(@, <<"Title too long", r.title_len>>),
                   !.score = @ - (SCORE_TITLE \div 2)]
  ELSE r

ScoreTitle(r) ==
  IF r.title_len = 0
    THEN [r EXCEPT !.issues = Append(@, <<"Missing title tag">>),
                   !.score = @ - SCORE_TITLE]
  ELSE IF r.title_len < TITLE_MIN
    THEN [r EXCEPT !.warnings = Append(@, <<"Title too short", r.title_len>>),
                   !.score = @ - (SCORE_TITLE \div 2)]
  ELSE IF r.title_len > TITLE_MAX
    THEN [r EXCEPT !.warnings = Append(@, <<"Title too long", r.title_len>>),
                   !.score = @ - (SCORE_TITLE \div 2)]
  ELSE r

ScoreMeta(r) ==
  IF r.meta_desc_len = 0
    THEN [r EXCEPT !.issues = Append(@, <<"Missing meta description">>),
                   !.score = @ - SCORE_META]
  ELSE IF r.meta_desc_len < META_MIN
    THEN [r EXCEPT !.warnings = Append(@, <<"Meta too short", r.meta_desc_len>>),
                   !.score = @ - (SCORE_META \div 2)]
  ELSE IF r.meta_desc_len > META_MAX
    THEN [r EXCEPT !.warnings = Append(@, <<"Meta too long", r.meta_desc_len>>),
                   !.score = @ - (SCORE_META \div 2)]
  ELSE r

ScoreH1(r) ==
  IF r.h1_count = 0
    THEN [r EXCEPT !.issues = Append(@, <<"Missing H1 tag">>),
                   !.score = @ - SCORE_H1]
  ELSE IF r.h1_count > 1
    THEN [r EXCEPT !.warnings = Append(@, <<"Multiple H1 tags", r.h1_count>>),
                   !.score = @ - (SCORE_H1 \div 2)]
  ELSE r

ScoreImages(r) ==
  IF r.images_missing_alt > 0
    THEN [r EXCEPT !.issues = Append(@, <<"image(s) missing alt text", r.images_missing_alt>>),
                   !.score = @ - Min(SCORE_IMAGES, r.images_missing_alt * 3)]
  ELSE r

ScoreWords(r) ==
  IF r.word_count < WORD_COUNT_MIN
    THEN [r EXCEPT !.warnings = Append(@, <<"Low word count", r.word_count>>),
                   !.score = @ - SCORE_WORDS]
  ELSE r

ScoreCanonical(r) ==
  IF r.canonical = ""
    THEN [r EXCEPT !.warnings = Append(@, <<"No canonical tag">>),
                   !.score = @ - (SCORE_CANON \div 2)]
  ELSE r

ScoreSchema(r) ==
  IF r.schema_types = <<>>
    THEN [r EXCEPT !.warnings = Append(@, <<"No structured data (Schema.org)">>),
                   !.score = @ - SCORE_SCHEMA]
  ELSE r

ScoreLoadTime(r) ==
  IF r.load_time_ms \notin {None, Some(0)} /\ r.load_time_ms[1] > 3000
    THEN [r EXCEPT !.issues = Append(@, <<"Slow page", r.load_time_ms[1]>>)]
  ELSE IF r.load_time_ms \notin {None, Some(0)} /\ r.load_time_ms[1] > 1500
    THEN [r EXCEPT !.warnings = Append(@, <<"Page could be faster", r.load_time_ms[1]>>)]
  ELSE r

\* result["score"] = max(0, score)
Clamp(r) == [r EXCEPT !.score = Max(0, r.score)]

\* the score starts lower the longer the page's URL is
ScoringByUrl(result) ==
  Clamp(ScoreLoadTime(ScoreSchema(ScoreCanonical(ScoreWords(ScoreImages(
    ScoreH1(ScoreMeta(ScoreTitle(
      [result EXCEPT !.score = 100 - Len(result.url)])))))))))

\* score = 100, the rules in their order, the clamp
Scoring(result) ==
  Clamp(ScoreLoadTime(ScoreSchema(ScoreCanonical(ScoreWords(ScoreImages(
    ScoreH1(ScoreMeta(ScoreTitle([result EXCEPT !.score = 100])))))))))

\* the link counts, the outbound list and the word count are stored
WithLinks(extracted, links, doc) ==
  [extracted EXCEPT !.internal_links = links.internal,
                    !.external_links = links.external,
                    !.outbound_urls = SetOf(links.outbound),
                    !.word_count = doc.word_count]

\* after the link loop: an exception it raised is caught by the outer
\* handler, otherwise the word count and the scoring follow
AfterLinks(extracted, links, doc) ==
  IF links.raised THEN ErrorResult(extracted, "Invalid IPv6 URL")
  ELSE Scoring(WithLinks(extracted, links, doc))

\* the HTTP issue of a status other than 200 recorded without returning
AfterGetNoEarlyReturn(url, resp, got) ==
  AfterLinks(Extract(IF resp.status_code # 200 THEN HttpErrorResult(got)
                     ELSE got, resp.doc),
             LinkLoop(url, [internal |-> 0, external |-> 0,
                            outbound |-> <<>>, raised |-> FALSE],
                      resp.doc.anchors),
             resp.doc)

\* after session.get returned: load time and status are stored, a status
\* other than 200 returns early
AfterGet(url, resp, got) ==
  IF resp.status_code # 200 THEN HttpErrorResult(got)
  ELSE AfterLinks(Extract(got, resp.doc),
                  LinkLoop(url, [internal |-> 0, external |-> 0,
                                 outbound |-> <<>>, raised |-> FALSE],
                           resp.doc.anchors),
                  resp.doc)

\* analyse_page(url, session), the session's answer being resp:
\* kind "timeout" or "error" (session.get raises), or "response" with the
\* status code, the elapsed milliseconds and the parsed document
analyse_page(url, resp) ==
  IF resp.kind = "timeout" THEN TimeoutResult(DefaultResult(url))
  ELSE IF resp.kind = "error" THEN ErrorResult(DefaultResult(url), resp.message)
  ELSE AfterGet(url, resp,
                [DefaultResult(url) EXCEPT !.load_time_ms = Some(resp.elapsed_ms),
                                           !.status_code = Some(resp.status_code)])

\* ----------------------------------------------------------------- summary
\* sum(r["score"] for r in results)
RECURSIVE SumScores(_)
SumScores(rs) == IF rs = <<>> THEN 0 ELSE Head(rs).score + SumScores(Tail(rs))

\* sum(r["load_time_ms"] or 0 for r in results)
RECURSIVE SumLoadTimes(_)
SumLoadTimes(rs) ==
  IF rs = <<>> THEN 0
  ELSE (IF Head(rs).load_time_ms = None THEN 0 ELSE Head(rs).load_time_ms[1])
       + SumLoadTimes(Tail(rs))

\* Python's round(n / d) for n >= 0, d > 0: the nearest integer, a tie going
\* to the even one
RoundHalfEven(n, d) ==
  IF 2 * (n % d) < d THEN n \div d
  ELSE IF 2 * (n % d) > d THEN (n \div d) + 1
  ELSE IF (n \div d) % 2 = 0 THEN n \div d
  ELSE (n \div d) + 1

\* the dict compute_summary returns for a non-empty list, avg being the
\* rounded average score
SummaryDict(rs, domain, avg) ==
  [domain |-> domain,
   total |-> Len(rs),
   avg_score |-> avg,
   avg_grade |-> grade(avg),
   avg_load_ms |-> RoundHalfEven(SumLoadTimes(rs), Len(rs)),
   broken_pages |-> Cardinality({i \in 1..Len(rs) :
                      rs[i].status_code # None /\ rs[i].status_code[1] >= 400}),
   missing_title |-> Cardinality({i \in 1..Len(rs) : rs[i].title_len = 0}),
   missing_meta |-> Cardinality({i \in 1..Len(rs) : rs[i].meta_desc_len = 0}),
   missing_h1 |-> Cardinality({i \in 1..Len(rs) : rs[i].h1_count = 0}),
   multi_h1 |-> Cardinality({i \in 1..Len(rs) : rs[i].h1_count > 1}),
   missing_alt |-> Cardinality({i \in 1..Len(rs) : rs[i].images_missing_alt > 0}),
   slow_pages |-> Cardinality({i \in 1..Len(rs) :
                    rs[i].load_time_ms \notin {None, Some(0)}
                    /\ rs[i].load_time_ms[1] > 3000}),
   no_schema |-> Cardinality({i \in 1..Len(rs) : rs[i].schema_types = <<>>}),
   no_canonical |-> Cardinality({i \in 1..Len(rs) : rs[i].canonical = ""}),
   low_words |-> Cardinality({i \in 1..Len(rs) : rs[i].word_count < WORD_COUNT_MIN})]

\* compute_summary(results, domain); the empty dict is the empty function
compute_summary(rs, domain) ==
  IF Len(rs) = 0 THEN <<>>
  ELSE SummaryDict(rs, domain, RoundHalfEven(SumScores(rs), Len(rs)))

\* ------------------------------------------------------------------ inputs
Http == <<"h", "t", "t", "p", ":", "/", "/">>
HomeA == Http \o <<"a">>
HomeASlash == Http \o <<"a", "/">>
PageP == Http \o <<"a", "/", "p">>
PagePSlash == Http \o <<"a", "/", "p", "/">>
PagePQuery == Http \o <<"a", "/", "p", "?", "x">>
PagePFragment == Http \o <<"a", "/", "p", "#", "x">>
PageQ == Http \o <<"a", "/", "q">>
PageQUpper == <<"H", "T", "T", "P", ":", "/", "/", "a", "/", "q">>
RelativeR == <<"/", "r">>
OtherHostP == Http \o <<"b", "/", "p">>
OtherHostQuery == Http \o <<"b", "/", "p", "?", "x">>
FragmentOnly == <<"#", "x">>
MailTo == <<"m", "a", "i", "l", "t", "o", ":", "x">>
Tel == <<"t", "e", "l", ":", "x">>
BadIPv6 == Http \o <<"[">>

\* the hrefs an anchor of a document may carry
Hrefs == {HomeA, HomeASlash, PageP, PagePSlash, PagePQuery, PagePFragment,
          PageQ, PageQUpper, RelativeR, OtherHostP, FragmentOnly, MailTo, Tel,
          BadIPv6}

\* a document that meets every rule of the rubric, without anchors
GoodDoc ==
  [title_len |-> 45, meta_desc_len |-> 140, h1_count |-> 1, canonical |-> "c",
   schema_types |-> <<"Article">>, images_missing_alt |-> 0,
   images_with_alt |-> 1, word_count |-> 500, anchors |-> <<>>]

\* a document without title, meta description, H1, canonical or schema, 250 words
PoorDoc ==
  [title_len |-> 0, meta_desc_len |-> 0, h1_count |-> 0, canonical |-> "",
   schema_types |-> <<>>, images_missing_alt |-> 0,
   images_with_alt |-> 0, word_count |-> 250, anchors |-> <<>>]

TitleLens == {0, 1, 29, 30, 60, 61}
MetaLens == {0, 1, 119, 120, 160, 161}
H1Counts == {0, 1, 2}
WordCounts == {0, 299, 300}
ElapsedMs == {0, 800, 1501, 3000, 3001}
ErrorStatuses == {301, 404, 500}

\* documents varying every field the scoring reads
FieldDocs ==
  [title_len : TitleLens, meta_desc_len : MetaLens, h1_count : H1Counts,
   canonical : {"", "c"}, schema_types : {<<>>, <<"Article">>},
   images_missing_alt : 0..MaxMissingAlt, images_with_alt : {1},
   word_count : WordCounts, anchors : {<<>>}]

SeqsUpTo(S, n) == UNION {[1..k -> S] : k \in 0..n}

\* documents varying the anchors
AnchorDocs == {[GoodDoc EXCEPT !.anchors = a] : a \in SeqsUpTo(Hrefs, MaxAnchors)}

Response(status, ms, doc) ==
  [kind |-> "response", status_code |-> status, elapsed_ms |-> ms,
   doc |-> doc, message |-> ""]
TimeoutResponse ==
  [kind |-> "timeout", status_code |-> 0, elapsed_ms |-> 0,
   doc |-> GoodDoc, message |-> ""]
ErrorResponse ==
  [kind |-> "error", status_code |-> 0, elapsed_ms |-> 0,
   doc |-> GoodDoc, message |-> "ConnectionError"]
NoResponse ==
  [kind |-> "none", status_code |-> 0, elapsed_ms |-> 0,
   doc |-> GoodDoc, message |-> ""]

\* the documents of the crawled sites: chain, diamond, back link and self
\* link, duplicates of one target, a foreign host, a malformed href
CrawlAnchors ==
  {<<>>,
   <<PagePSlash, PageQ>>,
   <<RelativeR>>,
   <<PageQ>>,
   <<HomeASlash, PagePQuery, PagePFragment>>,
   <<PageQUpper, OtherHostP, MailTo>>,
   <<RelativeR, PageP, RelativeR>>,
   <<BadIPv6>>}

\* a document whose only defect is a meta description of 119 characters
ShortMetaDoc == [GoodDoc EXCEPT !.meta_desc_len = 119]

\* a document without defect that links to two pages of the site
LinkingDoc == [GoodDoc EXCEPT !.anchors = <<PagePSlash, PageQ>>]

CrawlResponses ==
  {Response(200, 800, [GoodDoc EXCEPT !.anchors = a]) : a \in CrawlAnchors}
  \cup {Response(200, 3001, PoorDoc), Response(200, 800, ShortMetaDoc),
        Response(404, 800, LinkingDoc), TimeoutResponse, ErrorResponse}

\* what session.get may answer in the page-analysis specification
PageResponses ==
  {Response(200, ms, d) : ms \in ElapsedMs, d \in FieldDocs}
  \cup {Response(200, 800, d) : d \in AnchorDocs \cup {PoorDoc}}
  \cup {Response(st, 800, d) : st \in ErrorStatuses, d \in {GoodDoc, PoorDoc}}
  \cup {TimeoutResponse, ErrorResponse}
  \cup CrawlResponses

PageUrls == {HomeA, PageP, OtherHostP}

StartUrls == {HomeASlash, OtherHostQuery}

\* the characters of the URLs handed to clean_url on its own
UrlChars == {"h", ":", "/", "?", "#", "a"}

CleanInputs ==
  SeqsUpTo(UrlChars, MaxUrlLen) \cup (Hrefs \ {BadIPv6}) \cup StartUrls

\* ------------------------------------------------------------------- state
VARIABLES start_url, max_pages, visited, queue, results, url, resp, page,
          letter, summary, once, twice, pc

\* the summary of a finished crawl, a URL cleaned once and cleaned twice
aux == <<summary, once, twice>>

vars == <<start_url, max_pages, visited, queue, results, url, resp, page,
          letter, summary, once, twice, pc>>

\* ----------------------------------------------------------------- crawler
\* the loop test with <= in place of <
LoopCondOffByOne(q, v, m) == q # <<>> /\ Cardinality(v) <= m

\* while queue and len(visited) < max_pages
LoopCond(q, v, m) == q # <<>> /\ Cardinality(v) < m

\* queue[0] read without removing it
QueuePeek(q) == [url |-> Head(q), rest |-> q]

\* queue.pop(): the back of the queue
QueuePopBack(q) == [url |-> q[Len(q)], rest |-> SubSeq(q, 1, Len(q) - 1)]

\* url = queue.pop(0)
QueuePop(q) == [url |-> Head(q), rest |-> Tail(q)]

\* the insertion test without "new_url not in queue"
ShouldEnqueueUnqueued(new_url, v, q, start) ==
  new_url \notin v /\ same_domain(new_url, start)

\* new_url not in visited and new_url not in queue, and same_domain
ShouldEnqueue(new_url, v, q, start) ==
  /\ new_url \notin v
  /\ new_url \notin SetOf(q)
  /\ same_domain(new_url, start)

\* the loop left after the first URL of the list
EnqueueFirst(q, v, order, start) ==
  IF order = <<>> THEN q
  ELSE IF ShouldEnqueue(Head(order), v, q, start) THEN Append(q, Head(order))
  ELSE q

\* the loop over page["outbound_urls"], taken in the order of the list
RECURSIVE EnqueueAll(_, _, _, _)
EnqueueAll(q, v, order, start) ==
  IF order = <<>> THEN q
  ELSE EnqueueAll(IF ShouldEnqueue(Head(order), v, q, start)
                    THEN Append(q, Head(order)) ELSE q,
                  v, Tail(order), start)

\* the orders list(set(outbound)) may have
Orders(S) ==
  {f \in [1..Cardinality(S) -> S] : \A i, j \in 1..Cardinality(S) : f[i] = f[j] => i = j}

Init ==
  /\ start_url \in StartUrls
  /\ max_pages \in 0..MaxPages
  /\ visited = {}
  /\ queue = <<clean_url(start_url)>>
  /\ results = <<>>
  /\ url = <<>>
  /\ resp = NoResponse
  /\ page = DefaultResult(<<>>)
  /\ letter = ""
  /\ summary = <<>>
  /\ once = <<>>
  /\ twice = <<>>
  /\ pc = "loop"

\* lines 342-345: the loop test, the pop, the visited test and mark
Pop ==
  /\ pc = "loop"
  /\ LoopCond(queue, visited, max_pages)
  /\ LET p == QueuePop(queue)
     IN /\ url' = p.url
        /\ queue' = p.rest
        /\ IF p.url \in visited
             THEN pc' = "loop" /\ UNCHANGED visited
             ELSE pc' = "analyse" /\ visited' = visited \cup {p.url}
  /\ UNCHANGED <<start_url, max_pages, results, resp, page, letter, aux>>

\* line 356 and the loop of lines 358-361, pg being the analysed page
RecordAndEnqueue(pg) ==
  /\ page' = pg
  /\ results' = Append(results, pg)
  /\ \E order \in Orders(pg.outbound_urls) :
       queue' = EnqueueAll(queue, visited, order, start_url)

\* lines 355-363: analyse the page, record it, queue its links
Audit ==
  /\ pc = "analyse"
  /\ \E r \in CrawlResponses :
       /\ resp' = r
       /\ RecordAndEnqueue(analyse_page(url, r))
  /\ pc' = "loop"
  /\ UNCHANGED <<start_url, max_pages, visited, url, letter, aux>>

\* lines 365-367: the loop is left and the results are returned
Return ==
  /\ pc = "loop"
  /\ ~LoopCond(queue, visited, max_pages)
  /\ pc' = "done"
  /\ UNCHANGED <<start_url, max_pages, visited, queue, results, url, resp,
                 page, letter, aux>>

\* the caller's compute_summary(results, domain) on the returned list
Summarise ==
  /\ pc = "done"
  /\ summary' = compute_summary(results, urlparse(start_url).netloc)
  /\ pc' = "summarised"
  /\ UNCHANGED <<start_url, max_pages, visited, queue, results, url, resp,
                 page, letter, once, twice>>

Next == Pop \/ Audit \/ Return \/ Summarise

Spec == Init /\ [][Next]_vars

\* the crawl loop is one sequential thread: it keeps taking steps
FairSpec == Spec /\ WF_vars(Next)

\* --------------------------------------- page analysis on its own, grading
InitPage ==
  /\ start_url = <<>>
  /\ max_pages = 0
  /\ visited = {}
  /\ queue = <<>>
  /\ results = <<>>
  /\ url \in PageUrls
  /\ resp \in PageResponses
  /\ page = DefaultResult(<<>>)
  /\ letter = ""
  /\ summary = <<>>
  /\ once = <<>>
  /\ twice = <<>>
  /\ pc = "page"

Analyse ==
  /\ pc = "page"
  /\ page' = analyse_page(url, resp)
  /\ pc' = "analysed"
  /\ UNCHANGED <<start_url, max_pages, visited, queue, results, url, resp,
                 letter, aux>>

Grade ==
  /\ pc = "analysed"
  /\ letter' = grade(page.score)
  /\ pc' = "graded"
  /\ UNCHANGED <<start_url, max_pages, visited, queue, results, url, resp,
                 page, aux>>

NextPage == Analyse \/ Grade

SpecPage == InitPage /\ [][NextPage]_vars

\* ------------------------------------------------------ clean_url on its own
InitClean ==
  /\ start_url = <<>>
  /\ max_pages = 0
  /\ visited = {}
  /\ queue = <<>>
  /\ results = <<>>
  /\ url \in CleanInputs
  /\ resp = NoResponse
  /\ page = DefaultResult(<<>>)
  /\ letter = ""
  /\ summary = <<>>
  /\ once = <<>>
  /\ twice = <<>>
  /\ pc = "url"

CleanOnce ==
  /\ pc = "url"
  /\ once' = clean_url(url)
  /\ pc' = "cleaned"
  /\ UNCHANGED <<start_url, max_pages, visited, queue, results, url, resp,
                 page, letter, summary, twice>>

CleanTwice ==
  /\ pc = "cleaned"
  /\ twice' = clean_url(once)
  /\ pc' = "recleaned"
  /\ UNCHANGED <<start_url, max_pages, visited, queue, results, url, resp,
                 page, letter, summary, once>>

NextClean == CleanOnce \/ CleanTwice

SpecClean == InitClean /\ [][NextClean]_vars

\* ================================================================== claims
Last(seq) == seq[Len(seq)]
RecordsOf(u) == {i \in 1..Len(results) : results[i].url = u}
BudgetOrEmpty == queue = <<>> \/ Cardinality(visited) = max_pages

\* C1: at every point of a crawl |visited| <= maxPages, and on return every
\* visited URL is the url of exactly one record and every record's url is
\* visited.
C1_VisitedBoundedAndRecordedOnce ==
  /\ Cardinality(visited) <= max_pages
  /\ pc = "done" =>
       /\ \A u \in visited : Cardinality(RecordsOf(u)) = 1
       /\ \A i \in 1..Len(results) : results[i].url \in visited

\* the budget is hit with URLs still pending, after a failed fetch
C1_Witness ==
  /\ pc = "done"
  /\ Cardinality(visited) = max_pages
  /\ max_pages >= 3
  /\ queue # <<>>
  /\ \E i \in 1..Len(results) : results[i].error # None

\* C2: every crawl terminates: it reaches the return with the queue empty or
\* |visited| = maxPages, whatever cycles and self links the pages have.
C2_CrawlTerminates == <>(pc = "done" /\ BudgetOrEmpty)

\* a crawl that returned after auditing a page that links to itself and a
\* page that links back to the seed
C2_Witness ==
  /\ pc = "done"
  /\ \E i \in 1..Len(results) : results[i].url \in results[i].outbound_urls
  /\ \E i \in 2..Len(results) : results[1].url \in results[i].outbound_urls

\* the URLs within n links of the seed, over the outbound links of the
\* audited pages
LinkedFrom(S) ==
  S \cup UNION {results[i].outbound_urls : i \in {k \in 1..Len(results) : results[k].url \in S}}
RECURSIVE Within(_)
Within(n) == IF n = 0 THEN {clean_url(start_url)} ELSE LinkedFrom(Within(n - 1))
Reachable(u) == u \in Within(Len(results))
Dist(u) ==
  CHOOSE n \in 0..Len(results) : u \in Within(n) /\ (n = 0 \/ u \notin Within(n - 1))

\* C3: the records appear in non-decreasing order of their shortest link
\* distance from the seed, and the first record is the canonicalized seed.
C3_BreadthFirstOrder ==
  /\ results # <<>> => results[1].url = clean_url(start_url)
  /\ \A i \in 1..Len(results) : Reachable(results[i].url)
  /\ \A i, j \in 1..Len(results) :
       i < j => Dist(results[i].url) <= Dist(results[j].url)

\* four records at distances 0, 1, 1, 2
C3_Witness ==
  /\ pc = "done"
  /\ Len(results) = 4
  /\ Dist(results[2].url) = 1
  /\ Dist(results[3].url) = 1
  /\ Dist(results[4].url) = 2

\* C4: the queue never holds a URL twice nor a visited URL, so the URL at
\* its front is never one the pop would skip.
C4_QueueHasNoDuplicateNorVisited ==
  /\ \A i, j \in 1..Len(queue) : queue[i] = queue[j] => i = j
  /\ \A i \in 1..Len(queue) : queue[i] \notin visited

\* a page linked to a visited URL and to an already queued URL, and the
\* queue is not empty
C4_Witness ==
  /\ pc = "loop"
  /\ queue # <<>>
  /\ Len(results) >= 2
  /\ Last(results).outbound_urls \cap visited # {}
  /\ \E i \in 1..(Len(results) - 1) :
       Last(results).outbound_urls \cap results[i].outbound_urls \cap SetOf(queue) # {}

\* C5: every URL in the queue, in visited or in the results has the host of
\* the seed URL.
C5_StaysOnSeedHost ==
  \A u \in SetOf(queue) \cup visited \cup {results[i].url : i \in 1..Len(results)} :
    urlparse(u).netloc = urlparse(start_url).netloc

\* pages with links to another host were audited and the crawl went on
C5_Witness ==
  /\ pc = "done"
  /\ Len(results) >= 2
  /\ results[1].external_links > 0

\* C6: a fetch that times out or fails appends exactly one record for the
\* URL, with the error and one issue, queues nothing and returns to the loop;
\* the crawl returns only with the queue empty or the budget reached.
C6_FetchFailureIsLocal ==
  [][/\ (pc = "analyse" /\ resp'.kind \in {"timeout", "error"}) =>
          /\ results' = Append(results, page')
          /\ page'.url = url
          /\ page'.error # None
          /\ Len(page'.issues) = 1
          /\ Cardinality({i \in 1..Len(results') : results'[i].url = url}) = 1
          /\ queue' = queue
          /\ pc' = "loop"
     /\ pc' = "done" => BudgetOrEmpty']_vars

\* a timeout on the second page was followed by the audit of a third
C6_Witness ==
  /\ Len(results) >= 3
  /\ results[2].error = Some("Timeout")
  /\ results[3].status_code = Some(200)

\* C7: no record returned by analyse_page has both status_code and error
\* absent.
C7_StatusOrError ==
  pc \in {"analysed", "graded"} => ~(page.status_code = None /\ page.error = None)

\* a record without a status code: the fetch raised
C7_Witness ==
  /\ pc = "analysed"
  /\ page.status_code = None
  /\ page.error # None
  /\ resp.kind = "error"

\* the deductions of the rubric table, read from a record's fields
RubricDeductions(r) ==
    (IF r.title_len = 0 THEN 20
     ELSE IF r.title_len < 30 \/ r.title_len > 60 THEN 10 ELSE 0)
  + (IF r.meta_desc_len = 0 THEN 15
     ELSE IF r.meta_desc_len < 120 \/ r.meta_desc_len > 160 THEN 7 ELSE 0)
  + (IF r.h1_count = 0 THEN 15 ELSE IF r.h1_count > 1 THEN 7 ELSE 0)
  + Min(15, 3 * r.images_missing_alt)
  + (IF r.word_count < 300 THEN 10 ELSE 0)
  + (IF r.canonical = "" THEN 5 ELSE 0)
  + (IF r.schema_types = <<>> THEN 5 ELSE 0)

\* C8: for every page fetched with status 200,
\* score = max(0, 100 - the deductions of the rubric table).
C8_ScoreIsRubric ==
  (pc \in {"analysed", "graded"} /\ page.status_code = Some(200)) =>
    page.score = Max(0, 100 - RubricDeductions(page))

\* C9 as stated: the score of every record with a status other than 200 is
\* 100.
C9_NonOkScoreIs100 ==
  (pc \in {"analysed", "graded"} /\ page.status_code \notin {None, Some(200)}) =>
    page.score = 100

\* C9 amended: the score of every record with a status other than 200 is 0,
\* the value the result dict starts with, and no rule of the rubric has run.
C9_NonOkScoreIsZero ==
  (pc \in {"analysed", "graded"} /\ page.status_code \notin {None, Some(200)}) =>
    /\ page.score = 0
    /\ page.warnings = <<>>
    /\ Len(page.issues) = 1

\* a 404 answer to a document that would have scored 100
C9_Witness ==
  /\ pc = "analysed"
  /\ page.status_code = Some(404)
  /\ resp.doc = GoodDoc

\* C10: every record has a score in 0..100 and grade gives it the letter of
\* the breakpoints >=90 A, >=75 B, >=60 C, >=45 D, otherwise F.
C10_ScoreInRangeAndGraded ==
  /\ pc \in {"analysed", "graded"} => page.score \in 0..100
  /\ pc = "graded" =>
       \/ page.score >= 90 /\ letter = "A"
       \/ page.score >= 75 /\ page.score < 90 /\ letter = "B"
       \/ page.score >= 60 /\ page.score < 75 /\ letter = "C"
       \/ page.score >= 45 /\ page.score < 60 /\ letter = "D"
       \/ page.score < 45 /\ letter = "F"

\* a page graded at a breakpoint
C10_Witness ==
  /\ pc = "graded"
  /\ page.score = 75
  /\ letter = "B"

\* u up to its first character c
Before(u, c) == IF Find(u, c) > 0 THEN SubSeq(u, 1, Find(u, c) - 1) ELSE u
\* u without its fragment, its query string and its trailing slashes
Core(u) == RStripSlash(Before(Before(u, "#"), "?"))
\* every URL the crawl has discovered
Discovered ==
  visited \cup SetOf(queue) \cup UNION {results[i].outbound_urls : i \in 1..Len(results)}

\* C11: no two distinct URLs the crawl discovers, queues or visits differ
\* only in query string, fragment or trailing slash, and no two records are
\* for URLs that differ only so: such links make one visited entry and one
\* fetch.
C11_VariantsCollapse ==
  /\ \A u, v \in Discovered : Core(u) = Core(v) => u = v
  /\ \A i, j \in 1..Len(results) :
       Core(results[i].url) = Core(results[j].url) => i = j

\* /p was linked with a trailing slash from the seed and later with a query
\* string and with a fragment from another page, and has one record
C11_Witness ==
  /\ pc = "done"
  /\ Len(results) >= 3
  /\ PageP \in results[1].outbound_urls
  /\ \E i \in 2..Len(results) :
       /\ results[i].internal_links = 3
       /\ results[i].outbound_urls = {HomeA, PageP}
  /\ Cardinality(RecordsOf(PageP)) = 1

\* C12: clean_url(clean_url(u)) = clean_url(u) for every URL u, with or
\* without a scheme, query, fragment or trailing slashes.
C12_CleanUrlIdempotent == pc = "recleaned" => twice = once

\* the extracted fields, the status code and the load time of two records
\* are the same
SameScoringInputs(a, b) ==
  /\ a.status_code = b.status_code
  /\ a.load_time_ms = b.load_time_ms
  /\ a.title_len = b.title_len
  /\ a.meta_desc_len = b.meta_desc_len
  /\ a.h1_count = b.h1_count
  /\ a.canonical = b.canonical
  /\ a.schema_types = b.schema_types
  /\ a.images_total = b.images_total
  /\ a.images_missing_alt = b.images_missing_alt
  /\ a.internal_links = b.internal_links
  /\ a.external_links = b.external_links
  /\ a.word_count = b.word_count

IsMeanRoundedHalfUp(a, n, d) ==
  /\ 2 * d * a <= 2 * n + d
  /\ 2 * n + d < 2 * d * (a + 1)

\* C14: the summary of a non-empty result list has the mean score and the
\* mean load time rounded to the nearest integer, a mean of exactly k + 1/2
\* going up to k + 1; the summary of an empty result list is empty.
C14_AveragesRoundHalfUp ==
  pc = "summarised" =>
    IF results = <<>> THEN summary = <<>>
    ELSE /\ IsMeanRoundedHalfUp(summary.avg_score, SumScores(results),
                                Len(results))
         /\ IsMeanRoundedHalfUp(summary.avg_load_ms, SumLoadTimes(results),
                                Len(results))

\* the anchors of the analysed document that are not fragment-only, mailto:
\* or tel:
CountedAnchors ==
  {k \in 1..Len(resp.doc.anchors) :
     /\ ~StartsWith(resp.doc.anchors[k], <<"#">>)
     /\ ~StartsWith(resp.doc.anchors[k], <<"m", "a", "i", "l", "t", "o", ":">>)
     /\ ~StartsWith(resp.doc.anchors[k], <<"t", "e", "l", ":">>)}

\* the counted anchors that resolve to a URL on the page's host
InternalAnchors ==
  {k \in CountedAnchors :
     /\ ~urljoin(url, resp.doc.anchors[k]).err
     /\ urlparse(urljoin(url, resp.doc.anchors[k]).url).netloc
          = urlparse(url).netloc}

\* C15: on a status-200 page the ignored anchors are counted nowhere, each
\* other anchor resolving to the page's host counts 1 in internal_links and
\* has its canonical target in outbound_urls (a set: once), and each
\* remaining anchor counts 1 in external_links and adds nothing to
\* outbound_urls.
C15_LinksClassified ==
  (pc # "page" /\ resp.kind = "response" /\ resp.status_code = 200) =>
    /\ page.internal_links = Cardinality(InternalAnchors)
    /\ page.external_links = Cardinality(CountedAnchors \ InternalAnchors)
    /\ page.outbound_urls =
         {clean_url(urljoin(url, resp.doc.anchors[k]).url) : k \in InternalAnchors}

\* C16: auditing a response whose status is not 200 records a page whose
\* issues are exactly the HTTP issue of that status, without warnings and
\* with every extracted field at its default; the queue is left as it was
\* and the crawl goes back to its loop.
C16_NonOkShortCircuits ==
  [][(pc = "analyse" /\ resp'.kind = "response" /\ resp'.status_code # 200) =>
       /\ page'.status_code = <<resp'.status_code>>
       /\ page'.issues = << <<"HTTP", resp'.status_code>> >>
       /\ page'.warnings = <<>>
       /\ page'.title_len = 0
       /\ page'.meta_desc_len = 0
       /\ page'.h1_count = 0
       /\ page'.canonical = ""
       /\ page'.schema_types = <<>>
       /\ page'.images_total = 0
       /\ page'.images_missing_alt = 0
       /\ page'.internal_links = 0
       /\ page'.external_links = 0
       /\ page'.word_count = 0
       /\ page'.outbound_urls = {}
       /\ results' = Append(results, page')
       /\ queue' = queue
       /\ pc' = "loop"]_vars

\* a crawl with budget left ended after its second page answered 404 with a
\* document that links to two pages of the site
C16_Witness ==
  /\ pc = "done"
  /\ max_pages >= 3
  /\ Len(results) = 2
  /\ resp.kind = "response"
  /\ resp.status_code = 404
  /\ resp.doc.anchors = <<PagePSlash, PageQ>>
  /\ results[2].issues = << <<"HTTP", 404>> >>
  /\ queue = <<>>

\* the number of findings of the analysed page, issues and warnings, whose
\* text is one of names
FindingCount(names) ==
  Cardinality({k \in 1..Len(page.issues) : page.issues[k][1] \in names})
  + Cardinality({k \in 1..Len(page.warnings) : page.warnings[k][1] \in names})

\* C17: a status-200 page carries at most one of the findings "missing",
\* "too short", "too long" about its title and at most one about its meta
\* description; an empty title or meta description carries no length
\* warning, and the "Missing" issue when the analysis raised nothing.
C17_OneFindingPerField ==
  (pc # "page" /\ resp.kind = "response" /\ resp.status_code = 200) =>
    /\ FindingCount({"Missing title tag", "Title too short", "Title too long"}) <= 1
    /\ FindingCount({"Missing meta description", "Meta too short", "Meta too long"}) <= 1
    /\ resp.doc.title_len = 0 =>
         /\ FindingCount({"Title too short", "Title too long"}) = 0
         /\ page.error = None => FindingCount({"Missing title tag"}) = 1
    /\ resp.doc.meta_desc_len = 0 =>
         /\ FindingCount({"Meta too short", "Meta too long"}) = 0
         /\ page.error = None => FindingCount({"Missing meta description"}) = 1

\* a page without title and with a meta description of 161 characters was
\* analysed: one issue about the title, one warning about the meta
C17_Witness ==
  /\ pc = "analysed"
  /\ resp.kind = "response"
  /\ resp.status_code = 200
  /\ resp.doc.title_len = 0
  /\ resp.doc.meta_desc_len = 161
  /\ <<"Missing title tag">> \in SetOf(page.issues)
  /\ <<"Meta too long", 161>> \in SetOf(page.warnings)

\* C18: the rubric takes at most 85 points from a status-200 page, so its
\* score is in 15..100 and the clamp at 0 changes nothing; a score below 15
\* is found only on records that are not status-200 pages.
C18_ClampNeverActive ==
  /\ (pc \in {"analysed", "graded"} /\ page.status_code = Some(200)) =>
       /\ RubricDeductions(page) <= 85
       /\ page.score \in 15..100
  /\ (pc \in {"analysed", "graded"} /\ page.score < 15) =>
       (resp.kind # "response" \/ resp.status_code # 200)

\* every URL on the seed's host that a record links to is the url of a record
ClosedUnderLinks ==
  \A i \in 1..Len(results) :
    \A u \in results[i].outbound_urls :
      urlparse(u).netloc = urlparse(start_url).netloc =>
        \E j \in 1..Len(results) : results[j].url = u

\* C19: when crawl has returned, either there are exactly max_pages records,
\* or the queue is empty and the records are closed under links; with a
\* budget of at least one page there is at least one record.
C19_ExhaustiveUpToBudget ==
  pc \in {"done", "summarised"} =>
    /\ \/ Len(results) = max_pages
       \/ queue = <<>> /\ ClosedUnderLinks
    /\ max_pages >= 1 => results # <<>>

\* a crawl returned with budget left, after three pages, the first of which
\* links to the two others
C19_Witness ==
  /\ pc = "done"
  /\ queue = <<>>
  /\ Len(results) = 3
  /\ Len(results) < max_pages
  /\ results[1].outbound_urls = {results[2].url, results[3].url}
  /\ results[2].url # results[3].url

====
